---- MODULE Spec2Model ----
(***************************************************************************)
(* Console chess (human vs AI): the evaluation function, the negamax       *)
(* alpha-beta search and the game loop of src/chessGame.py, together with  *)
(* the part of the python-chess rules engine the program calls (legal-move *)
(* generation in the library's order, push/pop, the game-over tests).      *)
(*                                                                         *)
(* Squares are 0..63 with a1 = 0, b1 = 1, ..., h8 = 63, as in the library. *)
(* A piece is an integer: 0 for an empty square, the piece type for a      *)
(* White piece and its negation for a Black piece.  Colours are booleans,  *)
(* WHITE = TRUE and BLACK = FALSE, as in the library.                      *)
(***************************************************************************)
EXTENDS Integers, Sequences, FiniteSets, TLC

PAWN == 1
KNIGHT == 2
BISHOP == 3
ROOK == 4
QUEEN == 5
KING == 6
WHITE == TRUE
BLACK == FALSE

Squares == 0..63
NoSquare == -1

square_file(sq) == sq % 8
square_rank(sq) == sq \div 8
square(f, r) == r * 8 + f
square_mirror(sq) == square(square_file(sq), 7 - square_rank(sq))

Abs(x) == IF x < 0 THEN 0 - x ELSE x
SetMax(S) == CHOOSE x \in S : \A y \in S : y <= x

\* The elements of a set of squares from the highest to the lowest: the
\* library's scan_reversed.
RECURSIVE scan_reversed(_)
scan_reversed(S) ==
    IF S = {} THEN << >>
    ELSE LET m == SetMax(S) IN << m >> \o scan_reversed(S \ {m})

RECURSIVE Flatten(_)
Flatten(ss) == IF ss = << >> THEN << >> ELSE Head(ss) \o Flatten(Tail(ss))

Range(s) == { s[i] : i \in 1..Len(s) }

(***************************************************************************)
(* Pieces and colours                                                      *)
(***************************************************************************)
piece_type_of(p) == Abs(p)
color_of(p) == p > 0
make_piece(pt, color) == IF color = WHITE THEN pt ELSE 0 - pt
is_color(p, color) == IF color = WHITE THEN p > 0 ELSE p < 0

\* board.pieces(piece_type, color): the squares holding such a piece.
pieces_of(pcs, pt, color) == { sq \in Squares : pcs[sq] = make_piece(pt, color) }
occupied_co(pcs, color) == { sq \in Squares : is_color(pcs[sq], color) }

(***************************************************************************)
(* Attacks                                                                 *)
(***************************************************************************)
KnightDeltas == { <<1, 2>>, <<2, 1>>, <<2, -1>>, <<1, -2>>,
                  <<-1, -2>>, <<-2, -1>>, <<-2, 1>>, <<-1, 2>> }
KingDeltas == { <<1, 0>>, <<1, 1>>, <<0, 1>>, <<-1, 1>>,
                <<-1, 0>>, <<-1, -1>>, <<0, -1>>, <<1, -1>> }
RookDirs == { <<1, 0>>, <<-1, 0>>, <<0, 1>>, <<0, -1>> }
BishopDirs == { <<1, 1>>, <<1, -1>>, <<-1, 1>>, <<-1, -1>> }

OnBoard(f, r) == f >= 0 /\ f <= 7 /\ r >= 0 /\ r <= 7

StepTargets(sq, deltas) ==
    { square(square_file(sq) + d[1], square_rank(sq) + d[2]) :
        d \in { e \in deltas : OnBoard(square_file(sq) + e[1], square_rank(sq) + e[2]) } }

BB_KNIGHT_ATTACKS == [ sq \in Squares |-> StepTargets(sq, KnightDeltas) ]
BB_KING_ATTACKS == [ sq \in Squares |-> StepTargets(sq, KingDeltas) ]
\* BB_PAWN_ATTACKS[color][sq]: the squares a pawn of that colour on sq attacks.
BB_PAWN_ATTACKS ==
    [ color \in BOOLEAN |-> [ sq \in Squares |->
        StepTargets(sq, IF color = WHITE THEN { <<-1, 1>>, <<1, 1>> }
                                         ELSE { <<-1, -1>>, <<1, -1>> }) ] ]

\* The squares of a ray from (f, r) in direction (df, dr), up to and
\* including the first occupied square.
RECURSIVE Ray(_, _, _, _, _)
Ray(pcs, f, r, df, dr) ==
    IF ~OnBoard(f + df, r + dr) THEN {}
    ELSE IF pcs[square(f + df, r + dr)] # 0 THEN { square(f + df, r + dr) }
    ELSE { square(f + df, r + dr) } \cup Ray(pcs, f + df, r + dr, df, dr)

SliderAttacks(pcs, sq, dirs) ==
    UNION { Ray(pcs, square_file(sq), square_rank(sq), d[1], d[2]) : d \in dirs }

\* board.attacks_mask(square): the squares the piece on sq attacks.
attacks_mask(pcs, sq) ==
    LET pt == piece_type_of(pcs[sq]) IN
    CASE pt = PAWN -> BB_PAWN_ATTACKS[color_of(pcs[sq])][sq]
      [] pt = KNIGHT -> BB_KNIGHT_ATTACKS[sq]
      [] pt = KING -> BB_KING_ATTACKS[sq]
      [] pt = BISHOP -> SliderAttacks(pcs, sq, BishopDirs)
      [] pt = ROOK -> SliderAttacks(pcs, sq, RookDirs)
      [] pt = QUEEN -> SliderAttacks(pcs, sq, RookDirs \cup BishopDirs)
      [] OTHER -> {}

\* board.attackers_mask(color, square): the squares of the pieces of that
\* colour that attack sq.
attackers_mask(pcs, color, sq) ==
    { s \in BB_KNIGHT_ATTACKS[sq] : pcs[s] = make_piece(KNIGHT, color) }
    \cup { s \in BB_KING_ATTACKS[sq] : pcs[s] = make_piece(KING, color) }
    \cup { s \in BB_PAWN_ATTACKS[~color][sq] : pcs[s] = make_piece(PAWN, color) }
    \cup { s \in SliderAttacks(pcs, sq, RookDirs) :
             pcs[s] \in { make_piece(ROOK, color), make_piece(QUEEN, color) } }
    \cup { s \in SliderAttacks(pcs, sq, BishopDirs) :
             pcs[s] \in { make_piece(BISHOP, color), make_piece(QUEEN, color) } }

is_attacked_by(pcs, color, sq) == attackers_mask(pcs, color, sq) # {}

king_square(pcs, color) ==
    LET ks == pieces_of(pcs, KING, color) IN
    IF ks = {} THEN NoSquare ELSE SetMax(ks)

\* board.is_check() for the side `color` to move.
in_check(pcs, color) ==
    king_square(pcs, color) # NoSquare
    /\ is_attacked_by(pcs, ~color, king_square(pcs, color))

(***************************************************************************)
(* Moves                                                                   *)
(***************************************************************************)
\* chess.Move(from_square, to_square, promotion); promotion 0 is None.
Move(from, to, promo) == [ from_square |-> from, to_square |-> to, promotion |-> promo ]
\* chess.Move.null(): the falsy move 0000.
NullMove == Move(0, 0, 0)

PromotionPieces == << QUEEN, ROOK, BISHOP, KNIGHT >>

\* The moves of a pawn arriving on `to`: the four promotions on a back
\* rank, the plain move elsewhere.
PawnMovesTo(from, to) ==
    IF square_rank(to) \in {0, 7}
    THEN [ i \in 1..4 |-> Move(from, to, PromotionPieces[i]) ]
    ELSE << Move(from, to, 0) >>

is_en_passant(b, m) ==
    /\ b.ep_square = m.to_square
    /\ piece_type_of(b.pieces[m.from_square]) = PAWN
    /\ Abs(m.to_square - m.from_square) \in {7, 9}
    /\ b.pieces[m.to_square] = 0

\* BB_SQUARES[from_square] ^ BB_SQUARES[to_square]: the two squares of the
\* move, none for the null move.
touched(m) ==
    IF m.from_square = m.to_square THEN {} ELSE { m.from_square, m.to_square }

\* board.is_capture(move).
is_capture(b, m) ==
    (\E sq \in touched(m) : is_color(b.pieces[sq], ~b.turn)) \/ is_en_passant(b, m)

\* board.is_castling(move): the king moves two files or more, or onto a
\* rook of its side.
is_castling(b, m) ==
    /\ piece_type_of(b.pieces[m.from_square]) = KING
    /\ \/ Abs(square_file(m.from_square) - square_file(m.to_square)) > 1
       \/ b.pieces[m.to_square] = make_piece(ROOK, b.turn)

\* board._from_chess960: the king on e1 or e8 "taking" the rook on the h or
\* a file of its rank is the castling move to the g or c file.
from_chess960(b, from_square, to_square, promotion) ==
    IF /\ promotion = 0
       /\ from_square \in { 4, 60 }
       /\ piece_type_of(b.pieces[from_square]) = KING
       /\ to_square \in { from_square + 3, from_square - 4 }
    THEN Move(from_square, IF to_square > from_square THEN from_square + 2
                           ELSE from_square - 2, 0)
    ELSE Move(from_square, to_square, promotion)

\* The piece placement after the move (push's changes to the pieces).
pieces_after(b, m) ==
    LET pcs == b.pieces
        p == pcs[m.from_square]
        placed == IF m.promotion # 0 THEN make_piece(m.promotion, b.turn) ELSE p
        back == square_rank(m.from_square)
    IN
    IF is_castling(b, m)
    THEN LET a_side == square_file(m.to_square) < square_file(m.from_square)
             rook_from == square(IF a_side THEN 0 ELSE 7, back)
             rook_to == square(IF a_side THEN 3 ELSE 5, back)
         IN [ pcs EXCEPT ![m.from_square] = 0, ![rook_from] = 0,
                         ![m.to_square] = p, ![rook_to] = pcs[rook_from] ]
    ELSE IF is_en_passant(b, m)
    THEN LET capture_square == b.ep_square + (IF b.turn = WHITE THEN -8 ELSE 8)
         IN [ pcs EXCEPT ![m.from_square] = 0, ![capture_square] = 0,
                         ![m.to_square] = placed ]
    ELSE [ pcs EXCEPT ![m.from_square] = 0, ![m.to_square] = placed ]

\* board.clean_castling_rights(): the rook squares that still carry a right.
clean_castling_rights(b) ==
    { rsq \in b.castling_rights :
        /\ rsq \in {0, 7, 56, 63}
        /\ LET color == square_rank(rsq) = 0 IN
           /\ b.pieces[rsq] = make_piece(ROOK, color)
           /\ b.pieces[square(4, square_rank(rsq))] = make_piece(KING, color) }

\* board.generate_castling_moves(): h-side before a-side.
generate_castling_moves(b) ==
    LET back == IF b.turn = WHITE THEN 0 ELSE 7
        king == square(4, back)
        cands == scan_reversed({ rsq \in clean_castling_rights(b) : square_rank(rsq) = back })
        Allowed(rsq) ==
            LET a_side == rsq < king
                king_to == square(IF a_side THEN 2 ELSE 6, back)
                rook_to == square(IF a_side THEN 3 ELSE 5, back)
                king_path == IF a_side THEN { square(3, back) } ELSE { square(5, back) }
                rook_path == IF a_side THEN { square(1, back), square(2, back) }
                                       ELSE { square(6, back) }
                no_king == [ b.pieces EXCEPT ![king] = 0 ]
                shifted == [ no_king EXCEPT ![rsq] = 0, ![rook_to] = b.pieces[rsq] ]
            IN /\ \A sq \in king_path \cup rook_path \cup { king_to, rook_to } :
                     b.pieces[sq] = 0
               /\ \A sq \in king_path \cup { king } : ~is_attacked_by(no_king, ~b.turn, sq)
               /\ ~is_attacked_by(shifted, ~b.turn, king_to)
        CastleTo(rsq) == Move(king, square(IF rsq < king THEN 2 ELSE 6, back), 0)
    IN Flatten([ i \in 1..Len(cands) |->
                   IF Allowed(cands[i]) THEN << CastleTo(cands[i]) >> ELSE << >> ])

\* The moves of the non-pawn pieces on `froms`, from the highest square to
\* the lowest, each piece's targets from the highest to the lowest.
piece_moves(b, froms) ==
    LET src == scan_reversed(froms)
        Targets(sq) == scan_reversed({ t \in attacks_mask(b.pieces, sq) :
                                         ~is_color(b.pieces[t], b.turn) })
        MovesOf(sq) == LET ts == Targets(sq) IN [ j \in 1..Len(ts) |-> Move(sq, ts[j], 0) ]
    IN Flatten([ i \in 1..Len(src) |-> MovesOf(src[i]) ])

\* Pawn captures, single advances, double advances and en passant captures,
\* in the order generate_pseudo_legal_moves yields them.
\* The squares from which a pawn of the side to move may capture en
\* passant, as far as the pawns stand (generate_pseudo_legal_ep).
ep_capturers(b) ==
    IF b.ep_square = NoSquare \/ b.pieces[b.ep_square] # 0 THEN {}
    ELSE { s \in BB_PAWN_ATTACKS[~b.turn][b.ep_square] :
             /\ s \in pieces_of(b.pieces, PAWN, b.turn)
             /\ square_rank(s) = (IF b.turn = WHITE THEN 4 ELSE 3) }

pawn_moves(b) ==
    LET pcs == b.pieces
        pawns == pieces_of(pcs, PAWN, b.turn)
        up == IF b.turn = WHITE THEN 8 ELSE -8
        capturers == scan_reversed(pawns)
        CapTargets(sq) == scan_reversed({ t \in BB_PAWN_ATTACKS[b.turn][sq] :
                                            is_color(pcs[t], ~b.turn) })
        CapsOf(sq) == LET ts == CapTargets(sq)
                      IN Flatten([ j \in 1..Len(ts) |-> PawnMovesTo(sq, ts[j]) ])
        single == { t \in Squares : t - up \in pawns /\ pcs[t] = 0 }
        double == { t \in Squares : /\ t - up \in single
                                    /\ pcs[t] = 0
                                    /\ square_rank(t) \in (IF b.turn = WHITE THEN {2, 3}
                                                             ELSE {5, 4}) }
        singles == scan_reversed(single)
        doubles == scan_reversed(double)
        eps == scan_reversed(ep_capturers(b))
    IN Flatten([ i \in 1..Len(capturers) |-> CapsOf(capturers[i]) ])
       \o Flatten([ i \in 1..Len(singles) |-> PawnMovesTo(singles[i] - up, singles[i]) ])
       \o [ i \in 1..Len(doubles) |-> Move(doubles[i] - 2 * up, doubles[i], 0) ]
       \o [ i \in 1..Len(eps) |-> Move(eps[i], b.ep_square, 0) ]

\* A move is safe when it does not leave the mover's own king attacked.
is_safe(b, m) ==
    LET king == IF piece_type_of(b.pieces[m.from_square]) = KING THEN m.to_square
                ELSE king_square(b.pieces, b.turn)
    IN king = NoSquare \/ ~is_attacked_by(pieces_after(b, m), ~b.turn, king)

\* list(board.legal_moves): when the king is in check the library yields
\* the king's evasions first, then the captures and blocks of the other
\* pieces; otherwise the moves of all pieces (king included) from the
\* highest square down, the castling moves, then the pawn moves.
legal_moves(b) ==
    LET own == occupied_co(b.pieces, b.turn)
        kings == pieces_of(b.pieces, KING, b.turn)
        non_pawns == own \ pieces_of(b.pieces, PAWN, b.turn)
        pseudo == IF in_check(b.pieces, b.turn)
                  THEN piece_moves(b, kings) \o piece_moves(b, non_pawns \ kings)
                       \o pawn_moves(b)
                  ELSE piece_moves(b, non_pawns) \o generate_castling_moves(b)
                       \o pawn_moves(b)
        Safe(m) == is_safe(b, m)
    IN SelectSeq(pseudo, Safe)

\* `move in board.legal_moves`, board.is_legal(move): a move the generator
\* yields, or the king "taking" its own rook where that castling is legal.
is_legal(b, m) ==
    \/ m \in Range(legal_moves(b))
    \/ /\ m.promotion = 0
       /\ m.from_square \in Squares
       /\ b.pieces[m.from_square] = make_piece(KING, b.turn)
       /\ from_chess960(b, m.from_square, m.to_square, 0)
             \in Range(generate_castling_moves(b))

(***************************************************************************)
(* The board: chess.Board                                                  *)
(***************************************************************************)
\* A board read from a diagram: eight rows from rank 8 down to rank 1, each
\* row from file a to file h.
Board(rows, turn, castling, ep) ==
    [ pieces |-> [ sq \in Squares |-> rows[8 - square_rank(sq)][square_file(sq) + 1] ],
      turn |-> turn,
      castling_rights |-> castling,
      ep_square |-> ep,
      halfmove_clock |-> 0,
      move_stack |-> << >>,
      stack |-> << >> ]

\* What board.pop() restores: the library's _BoardState.
board_state(b) ==
    [ pieces |-> b.pieces, turn |-> b.turn, castling_rights |-> b.castling_rights,
      ep_square |-> b.ep_square, halfmove_clock |-> b.halfmove_clock ]

\* board.is_zeroing(move): a pawn move or a capture resets the clock.
is_zeroing(b, m) ==
    \E sq \in touched(m) :
        piece_type_of(b.pieces[sq]) = PAWN \/ is_color(b.pieces[sq], ~b.turn)

\* board.push(move): the move is recorded and played in the form
\* _from_chess960 gives it.
push(b, move) ==
    LET m == from_chess960(b, move.from_square, move.to_square, move.promotion)
        base == [ b EXCEPT !.move_stack = Append(b.move_stack, m),
                           !.stack = Append(b.stack, board_state(b)),
                           !.castling_rights = clean_castling_rights(b),
                           !.ep_square = NoSquare,
                           !.halfmove_clock = b.halfmove_clock + 1,
                           !.turn = ~b.turn ]
        p == b.pieces[m.from_square]
        diff == m.to_square - m.from_square
        rights == clean_castling_rights(b) \ { m.from_square, m.to_square }
        back == IF b.turn = WHITE THEN 0 ELSE 7
    IN
    IF m = NullMove THEN base
    ELSE [ base EXCEPT
             !.pieces = pieces_after(b, m),
             !.halfmove_clock = IF is_zeroing(b, m) THEN 0 ELSE b.halfmove_clock + 1,
             !.castling_rights =
                 IF piece_type_of(p) = KING
                 THEN { rsq \in rights : square_rank(rsq) # back }
                 ELSE rights,
             !.ep_square =
                 IF piece_type_of(p) = PAWN /\ diff = 16 /\ square_rank(m.from_square) = 1
                 THEN m.from_square + 8
                 ELSE IF piece_type_of(p) = PAWN /\ diff = -16
                         /\ square_rank(m.from_square) = 6
                 THEN m.from_square - 8
                 ELSE NoSquare ]

\* board.pop(): the board before the last push.
pop(b) ==
    LET st == b.stack[Len(b.stack)] IN
    [ pieces |-> st.pieces, turn |-> st.turn, castling_rights |-> st.castling_rights,
      ep_square |-> st.ep_square, halfmove_clock |-> st.halfmove_clock,
      move_stack |-> SubSeq(b.move_stack, 1, Len(b.move_stack) - 1),
      stack |-> SubSeq(b.stack, 1, Len(b.stack) - 1) ]

(***************************************************************************)
(* Game-over tests                                                         *)
(***************************************************************************)
is_check(b) == in_check(b.pieces, b.turn)
is_checkmate(b) == is_check(b) /\ legal_moves(b) = << >>
is_stalemate(b) == ~is_check(b) /\ legal_moves(b) = << >>

\* Light squares have an odd file + rank.
SameColorSquares(S) ==
    \/ \A sq \in S : (square_file(sq) + square_rank(sq)) % 2 = 0
    \/ \A sq \in S : (square_file(sq) + square_rank(sq)) % 2 = 1

AllOf(pcs, pt) == pieces_of(pcs, pt, WHITE) \cup pieces_of(pcs, pt, BLACK)

\* board.has_insufficient_material(color).
has_insufficient_material(pcs, color) ==
    IF \E pt \in { PAWN, ROOK, QUEEN } : pieces_of(pcs, pt, color) # {} THEN FALSE
    ELSE IF pieces_of(pcs, KNIGHT, color) # {}
    THEN /\ Cardinality(occupied_co(pcs, color)) <= 2
         /\ occupied_co(pcs, ~color)
              \ (pieces_of(pcs, KING, ~color) \cup pieces_of(pcs, QUEEN, ~color)) = {}
    ELSE IF pieces_of(pcs, BISHOP, color) # {}
    THEN /\ SameColorSquares(AllOf(pcs, BISHOP))
         /\ AllOf(pcs, PAWN) = {}
         /\ AllOf(pcs, KNIGHT) = {}
    ELSE TRUE

is_insufficient_material(b) ==
    has_insufficient_material(b.pieces, WHITE) /\ has_insufficient_material(b.pieces, BLACK)

SeventyFiveMoves == 150
is_seventyfive_moves(b) == b.halfmove_clock >= SeventyFiveMoves /\ legal_moves(b) # << >>

\* board.has_legal_en_passant(): an en passant capture is legal.  `b` is a
\* board or a saved board state.
has_legal_en_passant(b) ==
    /\ b.ep_square # NoSquare
    /\ \E s \in ep_capturers(b) : is_safe(b, Move(s, b.ep_square, 0))

\* What the library compares to tell a repeated position: the pieces, the
\* side to move, the castling rights that can still be used and the en
\* passant square when the capture is legal.
transposition_key(b) ==
    << b.pieces, b.turn, clean_castling_rights(b),
       IF has_legal_en_passant(b) THEN b.ep_square ELSE NoSquare >>

\* The move touches a rook with castling rights, or the king of a side
\* that has castling rights.
reduces_castling_rights(b, m) ==
    LET cr == clean_castling_rights(b)
        Kings(color, back) ==
            /\ \E rsq \in cr : square_rank(rsq) = back
            /\ touched(m) \cap pieces_of(b.pieces, KING, color) # {}
    IN touched(m) \cap cr # {} \/ Kings(WHITE, 0) \/ Kings(BLACK, 7)

\* board.is_irreversible(move), on the position the move is played from.
is_irreversible(b, m) ==
    is_zeroing(b, m) \/ reduces_castling_rights(b, m) \/ has_legal_en_passant(b)

\* The squares that hold a piece.
occupied(b) == { sq \in Squares : b.pieces[sq] # 0 }

\* The replay of board.is_repetition: the moves are taken back one by one,
\* from the k-th of the stack, until an irreversible move, and each
\* position with the key of the present one lowers the count.
RECURSIVE repetition_replay(_, _, _, _)
repetition_replay(b, key, k, count) ==
    IF count <= 1 THEN TRUE
    ELSE IF k < count - 1 THEN FALSE
    ELSE IF is_irreversible(b.stack[k], b.move_stack[k]) THEN FALSE
    ELSE repetition_replay(b, key, k - 1,
                           IF transposition_key(b.stack[k]) = key THEN count - 1
                           ELSE count)

\* board.is_repetition(count): first the quick test on the occupied squares
\* of the saved states, then the replay.
is_repetition(b, count) ==
    /\ 1 + Cardinality({ k \in 1..Len(b.stack) : occupied(b.stack[k]) = occupied(b) })
          >= count
    /\ repetition_replay(b, transposition_key(b), Len(b.move_stack), count)

is_fivefold_repetition(b) == is_repetition(b, 5)

\* The keys of the positions met on the way back up to the first
\* irreversible move.
RECURSIVE earlier_keys(_, _)
earlier_keys(b, k) ==
    IF k = 0 \/ is_irreversible(b.stack[k], b.move_stack[k]) THEN << >>
    ELSE << transposition_key(b.stack[k]) >> \o earlier_keys(b, k - 1)

\* board.can_claim_threefold_repetition(): the position is on the board for
\* the third time, or a legal move brings one about for the third time.
can_claim_threefold_repetition(b) ==
    LET keys == << transposition_key(b) >> \o earlier_keys(b, Len(b.move_stack))
        Times(key) == Cardinality({ i \in 1..Len(keys) : keys[i] = key })
    IN \/ Times(keys[1]) >= 3
       \/ \E m \in Range(legal_moves(b)) : Times(transposition_key(push(b, m))) >= 2

\* board.is_game_over() without claimed draws: checkmate, insufficient
\* material, stalemate, the seventy-five-move rule or fivefold repetition,
\* given the legal moves of the position.
game_over_given(b, moves) ==
    \/ is_insufficient_material(b)
    \/ moves = << >>
    \/ b.halfmove_clock >= SeventyFiveMoves
    \/ is_fivefold_repetition(b)

is_game_over(b) == game_over_given(b, legal_moves(b))

(***************************************************************************)
(* Evaluation                                                              *)
(***************************************************************************)
PieceTypes == { PAWN, KNIGHT, BISHOP, ROOK, QUEEN, KING }

PIECE_VALUES ==
    [ pt \in PieceTypes |->
        CASE pt = PAWN -> 100
          [] pt = KNIGHT -> 320
          [] pt = BISHOP -> 330
          [] pt = ROOK -> 500
          [] pt = QUEEN -> 900
          [] pt = KING -> 0 ]

\* The tables are indexed by square, a1 first: entry sq + 1 is square sq.
PST_PAWN == <<
         0,      0,      0,      0,      0,      0,      0,      0,
        50,     50,     50,     50,     50,     50,     50,     50,
        10,     10,     20,     30,     30,     20,     10,     10,
         5,      5,     10,     25,     25,     10,      5,      5,
         0,      0,      0,     20,     20,      0,      0,      0,
         5,  -5, -10,      0,      0, -10,  -5,      5,
         5,     10,     10, -20, -20,     10,     10,      5,
         0,      0,      0,      0,      0,      0,      0,      0 >>

PST_KNIGHT == <<
    -50, -40, -30, -30, -30, -30, -40, -50,
    -40, -20,      0,      5,      5,      0, -20, -40,
    -30,      5,     10,     15,     15,     10,      5, -30,
    -30,      0,     15,     20,     20,     15,      0, -30,
    -30,      5,     15,     20,     20,     15,      5, -30,
    -30,      0,     10,     15,     15,     10,      0, -30,
    -40, -20,      0,      0,      0,      0, -20, -40,
    -50, -40, -30, -30, -30, -30, -40, -50 >>

PST_BISHOP == <<
    -20, -10, -10, -10, -10, -10, -10, -20,
    -10,      5,      0,      0,      0,      0,      5, -10,
    -10,     10,     10,     10,     10,     10,     10, -10,
    -10,      0,     10,     10,     10,     10,      0, -10,
    -10,      5,      5,     10,     10,      5,      5, -10,
    -10,      0,      5,     10,     10,      5,      0, -10,
    -10,      0,      0,      0,      0,      0,      0, -10,
    -20, -10, -10, -10, -10, -10, -10, -20 >>

PST_ROOK == <<
         0,      0,      5,     10,     10,      5,      0,      0,
     -5,      0,      0,      0,      0,      0,      0,  -5,
     -5,      0,      0,      0,      0,      0,      0,  -5,
     -5,      0,      0,      0,      0,      0,      0,  -5,
     -5,      0,      0,      0,      0,      0,      0,  -5,
     -5,      0,      0,      0,      0,      0,      0,  -5,
         5,     10,     10,     10,     10,     10,     10,      5,
         0,      0,      0,      0,      0,      0,      0,      0 >>

PST_QUEEN == <<
    -20, -10, -10,  -5,  -5, -10, -10, -20,
    -10,      0,      0,      0,      0,      0,      0, -10,
    -10,      0,      5,      5,      5,      5,      0, -10,
     -5,      0,      5,      5,      5,      5,      0,  -5,
         0,      0,      5,      5,      5,      5,      0,      0,
    -10,      5,      5,      5,      5,      5,      0, -10,
    -10,      0,      5,      0,      0,      0,      0, -10,
    -20, -10, -10,  -5,  -5, -10, -10, -20 >>

PST_KING_MG == <<
    -30, -40, -40, -50, -50, -40, -40, -30,
    -30, -40, -40, -50, -50, -40, -40, -30,
    -30, -40, -40, -50, -50, -40, -40, -30,
    -30, -40, -40, -50, -50, -40, -40, -30,
    -20, -30, -30, -40, -40, -30, -30, -20,
    -10, -20, -20, -20, -20, -20, -20, -10,
        20,     20,      0,      0,      0,      0,     20,     20,
        20,     30,     10,      0,      0,     10,     30,     20 >>

PST_KING_EG == <<
    -50, -40, -30, -20, -20, -30, -40, -50,
    -30, -20, -10,      0,      0, -10, -20, -30,
    -30, -10,     20,     30,     30,     20, -10, -30,
    -30, -10,     30,     40,     40,     30, -10, -30,
    -30, -10,     30,     40,     40,     30, -10, -30,
    -30, -10,     20,     30,     30,     20, -10, -30,
    -30, -30,      0,      0,      0,      0, -30, -30,
    -50, -30, -30, -30, -30, -30, -30, -50 >>

PSTS ==
    [ pt \in { PAWN, KNIGHT, BISHOP, ROOK, QUEEN } |->
        CASE pt = PAWN -> PST_PAWN
          [] pt = KNIGHT -> PST_KNIGHT
          [] pt = BISHOP -> PST_BISHOP
          [] pt = ROOK -> PST_ROOK
          [] pt = QUEEN -> PST_QUEEN ]

\* EVAL_CFG.mg_phase_weight
mg_phase_weight == 24
\* The magnitude of a checkmate score.
MATE == 99999

RECURSIVE SumOver(_, _)
SumOver(f, S) ==
    IF S = {} THEN 0
    ELSE LET x == CHOOSE y \in S : TRUE IN f[x] + SumOver(f, S \ {x})

\* A faulty material count: the pieces of the other colour are summed.
material_of_opponent(pcs, color) ==
    SumOver([ sq \in Squares |-> PIECE_VALUES[piece_type_of(pcs[sq])] ],
            occupied_co(pcs, ~color))

\* The sum over the pieces of one colour of the material values.
material(pcs, color) ==
    SumOver([ sq \in Squares |-> PIECE_VALUES[piece_type_of(pcs[sq])] ],
            occupied_co(pcs, color))

\* The piece-square sum of one colour's pieces other than the king; Black
\* reads the tables at the mirrored square.
pst_sum(pcs, color) ==
    SumOver([ sq \in Squares |->
                PSTS[piece_type_of(pcs[sq])][(IF color = WHITE THEN sq ELSE square_mirror(sq)) + 1] ],
            occupied_co(pcs, color) \ pieces_of(pcs, KING, color))

king_sum(pcs, color, table) ==
    SumOver([ sq \in Squares |-> table[(IF color = WHITE THEN sq ELSE square_mirror(sq)) + 1] ],
            pieces_of(pcs, KING, color))

\* evaluate(board), given list(board.legal_moves): centipawns from White's
\* perspective.
evaluate_given(b, moves) ==
    IF game_over_given(b, moves)
    THEN IF is_check(b) /\ moves = << >>
         THEN (IF b.turn = WHITE THEN -MATE ELSE MATE)
         ELSE 0
    ELSE LET white_material == material(b.pieces, WHITE)
             black_material == material(b.pieces, BLACK)
             phase == (white_material + black_material) \div 100
             king_table == IF phase >= mg_phase_weight THEN PST_KING_MG ELSE PST_KING_EG
             mobility == 2 * Len(moves)
         IN pst_sum(b.pieces, WHITE) - pst_sum(b.pieces, BLACK)
            + (white_material - black_material)
            + king_sum(b.pieces, WHITE, king_table) - king_sum(b.pieces, BLACK, king_table)
            + (IF b.turn = WHITE THEN mobility ELSE -mobility)

evaluate(b) == evaluate_given(b, legal_moves(b))

(***************************************************************************)
(* Search: search_best_move and its inner negamax, as functions            *)
(***************************************************************************)
\* The bound 10**9 of the initial window and of best_score.
INF == 1000000000

\* Python's None in a move slot.
None == Move(NoSquare, NoSquare, 0)

\* Captures first, then the others; each group keeps its generation order
\* (the sort is stable and the second key component is the same for every
\* move of the node).
sort_moves(b, moves) ==
    LET Cap(m) == is_capture(b, m)
        Quiet(m) == ~is_capture(b, m)
    IN SelectSeq(moves, Cap) \o SelectSeq(moves, Quiet)

\* One pass of the loop body after the child's score is known: the new
\* best_score, best_move and alpha.
update(fr, move, score) ==
    LET best_score == IF score > fr.best_score THEN score ELSE fr.best_score
        best_move == IF score > fr.best_score THEN move ELSE fr.best_move
        alpha == IF best_score > fr.alpha THEN best_score ELSE fr.alpha
    IN [ fr EXCEPT !.best_score = best_score, !.best_move = best_move, !.alpha = alpha ]

\* A faulty test: the loop ends as soon as a move has reached alpha.
cutoff_at_alpha(fr) == fr.best_score >= fr.alpha

\* The test that ends the loop early.
cutoff(fr) == fr.alpha >= fr.beta

\* A faulty window: negated but not swapped.
child_window_unswapped(fr) == [ alpha |-> -fr.alpha, beta |-> -fr.beta ]

\* The window handed to the child: (-beta, -alpha).
child_window(fr) == [ alpha |-> -fr.beta, beta |-> -fr.alpha ]

\* Faulty locals: best_score starts at +10**9, which no score exceeds.
new_frame_from_above(b, depth, alpha, beta, moves) ==
    [ depth |-> depth, alpha |-> alpha, beta |-> beta, alpha_in |-> alpha,
      best_score |-> INF, best_move |-> None,
      moves |-> sort_moves(b, moves), i |-> 1, waiting |-> FALSE, broke |-> FALSE ]

\* The locals of a negamax call that is about to loop over its moves;
\* `moves` is list(b.legal_moves).
new_frame(b, depth, alpha, beta, moves) ==
    [ depth |-> depth, alpha |-> alpha, beta |-> beta, alpha_in |-> alpha,
      best_score |-> -INF, best_move |-> None,
      moves |-> sort_moves(b, moves), i |-> 1, waiting |-> FALSE, broke |-> FALSE ]

\* A faulty base case: only the finished game is a leaf.
is_leaf_when_over(b, depth, moves) == game_over_given(b, moves)

\* `depth == 0 or b.is_game_over()`.
is_leaf(b, depth, moves) == depth = 0 \/ game_over_given(b, moves)

RECURSIVE negamax(_, _, _, _)
RECURSIVE negamax_loop(_, _)
negamax_loop(b, fr) ==
    IF fr.i > Len(fr.moves) THEN [ score |-> fr.best_score, move |-> fr.best_move ]
    ELSE LET move == fr.moves[fr.i]
             score == -(negamax(push(b, move), fr.depth - 1, child_window(fr).alpha,
                                 child_window(fr).beta).score)
             nxt == update(fr, move, score)
         IN IF cutoff(nxt) THEN [ score |-> nxt.best_score, move |-> nxt.best_move ]
            ELSE negamax_loop(b, [ nxt EXCEPT !.i = fr.i + 1 ])

negamax(b, depth, alpha, beta) ==
    LET moves == legal_moves(b) IN
    IF is_leaf(b, depth, moves) THEN [ score |-> evaluate_given(b, moves), move |-> None ]
    ELSE negamax_loop(b, new_frame(b, depth, alpha, beta, moves))

\* `move or chess.Move.null()`.
or_null(move) == IF move \in { None, NullMove } THEN NullMove ELSE move

\* The outcome of the opening-book probe: an exception, no entry, or an
\* entry carrying a move.
BookError == [ kind |-> "error", move |-> None ]
BookNone == [ kind |-> "none", move |-> None ]
BookEntry(m) == [ kind |-> "entry", move |-> m ]

\* search_best_move(board, max_depth, use_book) given the probe's outcome.
search_best_move(b, max_depth, use_book, probe) ==
    IF use_book /\ probe.kind = "entry" THEN probe.move
    ELSE or_null(negamax(b, max_depth, -INF, INF).move)

(***************************************************************************)
(* Positions                                                               *)
(***************************************************************************)
AllCastling == { 0, 7, 56, 63 }

\* chess.Board(): rnbqkbnr/pppppppp/8/8/8/8/PPPPPPPP/RNBQKBNR w KQkq - 0 1
StartBoard ==
    Board(<< << -4, -2, -3, -5, -6, -3, -2, -4 >>,
             << -1, -1, -1, -1, -1, -1, -1, -1 >>,
             <<  0,  0,  0,  0,  0,  0,  0,  0 >>,
             <<  0,  0,  0,  0,  0,  0,  0,  0 >>,
             <<  0,  0,  0,  0,  0,  0,  0,  0 >>,
             <<  0,  0,  0,  0,  0,  0,  0,  0 >>,
             <<  1,  1,  1,  1,  1,  1,  1,  1 >>,
             <<  4,  2,  3,  5,  6,  3,  2,  4 >> >>, WHITE, AllCastling, NoSquare)

\* rnbqkbnr/pppppppp/8/8/8/8/PPPPPPP1/RNBQKBNR w KQkq - 0 1
MissingPawnBoard ==
    Board(<< << -4, -2, -3, -5, -6, -3, -2, -4 >>,
             << -1, -1, -1, -1, -1, -1, -1, -1 >>,
             <<  0,  0,  0,  0,  0,  0,  0,  0 >>,
             <<  0,  0,  0,  0,  0,  0,  0,  0 >>,
             <<  0,  0,  0,  0,  0,  0,  0,  0 >>,
             <<  0,  0,  0,  0,  0,  0,  0,  0 >>,
             <<  1,  1,  1,  1,  1,  1,  1,  0 >>,
             <<  4,  2,  3,  5,  6,  3,  2,  4 >> >>, WHITE, AllCastling, NoSquare)

\* After 1.f3 e5 2.g4: Black to move mates with Qh4.
FoolsMateBoard ==
    push(push(push(StartBoard, Move(square(5, 1), square(5, 2), 0)),
              Move(square(4, 6), square(4, 4), 0)),
         Move(square(6, 1), square(6, 3), 0))

\* After 2...Qh4#: White is checkmated.
MatedBoard == push(FoolsMateBoard, Move(square(3, 7), square(7, 3), 0))

\* 7k/5K2/8/6Q1/8/8/8/8 w - - : White mates (Qh5, Qh4, Qh6, Qg7) or
\* stalemates (Qg6) in one.
QueenMateBoard ==
    Board(<< <<  0,  0,  0,  0,  0,  0,  0, -6 >>,
             <<  0,  0,  0,  0,  0,  6,  0,  0 >>,
             <<  0,  0,  0,  0,  0,  0,  0,  0 >>,
             <<  0,  0,  0,  0,  0,  0,  5,  0 >>,
             <<  0,  0,  0,  0,  0,  0,  0,  0 >>,
             <<  0,  0,  0,  0,  0,  0,  0,  0 >>,
             <<  0,  0,  0,  0,  0,  0,  0,  0 >>,
             <<  0,  0,  0,  0,  0,  0,  0,  0 >> >>, WHITE, {}, NoSquare)

\* 7k/8/p7/1P1p4/4P3/8/8/K7 w - - : a pawn ending with captures for both
\* sides.
PawnEndingBoard ==
    Board(<< <<  0,  0,  0,  0,  0,  0,  0, -6 >>,
             <<  0,  0,  0,  0,  0,  0,  0,  0 >>,
             << -1,  0,  0,  0,  0,  0,  0,  0 >>,
             <<  0,  1,  0, -1,  0,  0,  0,  0 >>,
             <<  0,  0,  0,  0,  1,  0,  0,  0 >>,
             <<  0,  0,  0,  0,  0,  0,  0,  0 >>,
             <<  0,  0,  0,  0,  0,  0,  0,  0 >>,
             <<  6,  0,  0,  0,  0,  0,  0,  0 >> >>, WHITE, {}, NoSquare)

\* 7k/8/p7/1P6/3pP3/8/8/K7 b - e3 : White has just played e2e4 and Black
\* may capture en passant.
EnPassantBoard ==
    Board(<< <<  0,  0,  0,  0,  0,  0,  0, -6 >>,
             <<  0,  0,  0,  0,  0,  0,  0,  0 >>,
             << -1,  0,  0,  0,  0,  0,  0,  0 >>,
             <<  0,  1,  0,  0,  0,  0,  0,  0 >>,
             <<  0,  0,  0, -1,  1,  0,  0,  0 >>,
             <<  0,  0,  0,  0,  0,  0,  0,  0 >>,
             <<  0,  0,  0,  0,  0,  0,  0,  0 >>,
             <<  6,  0,  0,  0,  0,  0,  0,  0 >> >>, BLACK, {}, square(4, 2))

\* 7k/P7/8/8/8/8/8/K7 w - - : White promotes, to a queen or rook with
\* check, to a bishop or knight into a draw by insufficient material.
PromotionBoard ==
    Board(<< <<  0,  0,  0,  0,  0,  0,  0, -6 >>,
             <<  1,  0,  0,  0,  0,  0,  0,  0 >>,
             <<  0,  0,  0,  0,  0,  0,  0,  0 >>,
             <<  0,  0,  0,  0,  0,  0,  0,  0 >>,
             <<  0,  0,  0,  0,  0,  0,  0,  0 >>,
             <<  0,  0,  0,  0,  0,  0,  0,  0 >>,
             <<  0,  0,  0,  0,  0,  0,  0,  0 >>,
             <<  6,  0,  0,  0,  0,  0,  0,  0 >> >>, WHITE, {}, NoSquare)

\* r3k2r/8/8/8/8/8/8/R3K2R w KQkq - : both sides may castle on either
\* wing and the rooks may capture each other.
CastlingBoard ==
    Board(<< << -4,  0,  0,  0, -6,  0,  0, -4 >>,
             <<  0,  0,  0,  0,  0,  0,  0,  0 >>,
             <<  0,  0,  0,  0,  0,  0,  0,  0 >>,
             <<  0,  0,  0,  0,  0,  0,  0,  0 >>,
             <<  0,  0,  0,  0,  0,  0,  0,  0 >>,
             <<  0,  0,  0,  0,  0,  0,  0,  0 >>,
             <<  0,  0,  0,  0,  0,  0,  0,  0 >>,
             <<  4,  0,  0,  0,  6,  0,  0,  4 >> >>, WHITE, AllCastling, NoSquare)

\* Ka1-a2 Kh8-h7 Ka2-a1 Kh7-h8: four plies that bring the pawn ending back.
Shuffle == << Move(0, 8, 0), Move(63, 55, 0), Move(8, 0, 0), Move(55, 63, 0) >>

\* What board.push has saved, and what the board holds, after k plies of
\* shuffling from the pawn ending.
ShuffleState(k) ==
    LET white_king == IF k % 4 \in {1, 2} THEN 8 ELSE 0
        black_king == IF k % 4 \in {2, 3} THEN 55 ELSE 63
    IN [ pieces |-> [ sq \in Squares |->
                        IF sq = white_king THEN KING
                        ELSE IF sq = black_king THEN -KING
                        ELSE IF sq \in {0, 8, 55, 63} THEN 0
                        ELSE PawnEndingBoard.pieces[sq] ],
         turn |-> (k % 2 = 0),
         castling_rights |-> {},
         ep_square |-> NoSquare,
         halfmove_clock |-> k ]

\* The pawn ending with fifteen plies of shuffling on its move stack: Black
\* is to move, and Kh7-h8 puts the first position on the board for the
\* fifth time.
RepetitionBoard ==
    [ pieces |-> ShuffleState(15).pieces,
      turn |-> ShuffleState(15).turn,
      castling_rights |-> {},
      ep_square |-> NoSquare,
      halfmove_clock |-> 15,
      move_stack |-> [ k \in 1..15 |-> Shuffle[((k - 1) % 4) + 1] ],
      stack |-> [ k \in 1..15 |-> ShuffleState(k - 1) ] ]

\* 8/8/4k3/8/8/3K4/8/8 w - - : bare kings, a draw by insufficient material.
BareKingsBoard ==
    Board(<< <<  0,  0,  0,  0,  0,  0,  0,  0 >>,
             <<  0,  0,  0,  0,  0,  0,  0,  0 >>,
             <<  0,  0,  0,  0, -6,  0,  0,  0 >>,
             <<  0,  0,  0,  0,  0,  0,  0,  0 >>,
             <<  0,  0,  0,  0,  0,  0,  0,  0 >>,
             <<  0,  0,  0,  6,  0,  0,  0,  0 >>,
             <<  0,  0,  0,  0,  0,  0,  0,  0 >>,
             <<  0,  0,  0,  0,  0,  0,  0,  0 >> >>, WHITE, {}, NoSquare)

(***************************************************************************)
(* The search as a state machine: one step per push, per pop and per       *)
(* entry to and return from negamax                                        *)
(***************************************************************************)
VARIABLES
    board,           \* the chess.Board the program works on
    board0,          \* the board as it was when search_best_move was called
    max_depth,       \* the max_depth argument (the AI depth in the game loop)
    use_book,        \* the use_book argument
    book,            \* the outcome of the opening-book probe
    pc,              \* where the program is
    frames,          \* the active negamax calls, the root first
    call,            \* the negamax call about to be entered
    ret,             \* the value the last negamax call returned
    result,          \* the move search_best_move returned
    calls,           \* how often negamax, evaluate, push and pop have run, and
                     \* how many moves the cutoffs have left unexamined
    human_is_white,  \* the side chosen at the prompt
    out              \* the last message of the game loop

vars == << board, board0, max_depth, use_book, book, pc, frames, call, ret,
           result, calls, human_is_white, out >>

\* The deepest search of the positions with few moves, and of the positions
\* with many moves and of the calls that probe the book.
MaxDepth == 3
WideDepth == 1

WidePositions == { StartBoard, FoolsMateBoard, CastlingBoard, QueenMateBoard,
                   PromotionBoard, RepetitionBoard }
NarrowPositions == { PawnEndingBoard, EnPassantBoard, BareKingsBoard, MatedBoard }
\* The position of the evaluation test, which is only evaluated.
StaticPositions == { MissingPawnBoard }

NoCall == [ pending |-> FALSE, depth |-> 0, alpha |-> 0, beta |-> 0 ]
Call(depth, alpha, beta) ==
    [ pending |-> TRUE, depth |-> depth, alpha |-> alpha, beta |-> beta ]

NoRet == [ valid |-> FALSE, score |-> 0, move |-> None, leaf |-> FALSE,
           broke |-> FALSE, depth |-> 0, alpha_in |-> 0, beta |-> 0 ]
Ret(score, move, leaf, broke, depth, alpha_in, beta) ==
    [ valid |-> TRUE, score |-> score, move |-> move, leaf |-> leaf,
      broke |-> broke, depth |-> depth, alpha_in |-> alpha_in, beta |-> beta ]

NoCalls == [ negamax |-> 0, evaluate |-> 0, push |-> 0, pop |-> 0, skipped |-> 0 ]
Count(what) == [ calls EXCEPT ![what] = calls[what] + 1 ]

\* The moves a book entry may carry: the first legal move of the position,
\* a move that is legal in few positions (e7e5), and the null move.
BookMoves(b) ==
    { Move(square(4, 6), square(4, 4), 0), NullMove }
    \cup (IF legal_moves(b) = << >> THEN {} ELSE { legal_moves(b)[1] })

Init ==
    /\ \E b \in WidePositions \cup NarrowPositions \cup StaticPositions,
          d \in 0..MaxDepth, ub \in BOOLEAN :
         /\ (b \in WidePositions \/ ub) => d <= WideDepth
         /\ b \in StaticPositions => d = 0
         /\ board = b
         /\ max_depth = d
         /\ use_book = ub
    /\ board0 = board
    /\ book = BookNone
    /\ pc = "start"
    /\ frames = << >>
    /\ call = NoCall
    /\ ret = NoRet
    /\ result = None
    /\ calls = NoCalls
    /\ human_is_white = TRUE
    /\ out = "none"

Top == frames[Len(frames)]
SetTop(fr) == [ frames EXCEPT ![Len(frames)] = fr ]

\* use_book is set and the probe finds an entry: its move is returned at
\* once.
BookHit ==
    /\ pc = "start" /\ use_book
    /\ \E m \in BookMoves(board) :
         /\ book' = BookEntry(m)
         /\ result' = m
    /\ pc' = "done"
    /\ UNCHANGED << board, board0, max_depth, use_book, frames, call, ret, calls,
                    human_is_white, out >>

\* A faulty probe: the exception of the book leaves search_best_move.
BookMiss_raises ==
    /\ pc = "start" /\ use_book
    /\ \/ book' = BookError /\ pc' = "raised" /\ call' = call
       \/ book' = BookNone /\ pc' = "negamax" /\ call' = Call(max_depth, -INF, INF)
    /\ UNCHANGED << board, board0, max_depth, use_book, frames, ret, result, calls,
                    human_is_white, out >>

\* use_book is set and the probe raises or finds nothing: the exception is
\* swallowed and the search starts.
BookMiss ==
    /\ pc = "start" /\ use_book
    /\ book' \in { BookError, BookNone }
    /\ call' = Call(max_depth, -INF, INF)
    /\ pc' = "negamax"
    /\ UNCHANGED << board, board0, max_depth, use_book, frames, ret, result, calls,
                    human_is_white, out >>

\* use_book is not set: the search starts.
NoBook ==
    /\ pc = "start" /\ ~use_book
    /\ call' = Call(max_depth, -INF, INF)
    /\ pc' = "negamax"
    /\ UNCHANGED << board, board0, max_depth, use_book, book, frames, ret, result,
                    calls, human_is_white, out >>

\* negamax is entered: at depth 0 or at a finished game it returns the
\* evaluation and no move, otherwise it lists and orders the moves.
Enter ==
    /\ pc = "negamax" /\ call.pending
    /\ LET moves == legal_moves(board) IN
       IF is_leaf(board, call.depth, moves)
       THEN /\ ret' = Ret(evaluate_given(board, moves), None, TRUE, FALSE,
                          call.depth, call.alpha, call.beta)
            /\ frames' = frames
            /\ calls' = [ calls EXCEPT !.negamax = calls.negamax + 1,
                                       !.evaluate = calls.evaluate + 1 ]
       ELSE /\ frames' = Append(frames, new_frame(board, call.depth, call.alpha,
                                                  call.beta, moves))
            /\ ret' = NoRet
            /\ calls' = Count("negamax")
    /\ call' = NoCall
    /\ UNCHANGED << board, board0, max_depth, use_book, book, pc, result,
                    human_is_white, out >>

\* The loop takes its next move: push it and call negamax one ply deeper
\* with the window negated and swapped.
PushMove ==
    /\ pc = "negamax" /\ ~call.pending /\ frames # << >>
    /\ ~Top.waiting /\ ~Top.broke /\ Top.i <= Len(Top.moves)
    /\ board' = push(board, Top.moves[Top.i])
    /\ call' = Call(Top.depth - 1, child_window(Top).alpha, child_window(Top).beta)
    /\ frames' = SetTop([ Top EXCEPT !.waiting = TRUE ])
    /\ calls' = Count("push")
    /\ ret' = NoRet
    /\ UNCHANGED << board0, max_depth, use_book, book, pc, result, human_is_white, out >>

\* A faulty loop body: the break comes before the pop.
PopMove_break_first ==
    /\ pc = "negamax" /\ ~call.pending /\ frames # << >>
    /\ Top.waiting /\ ret.valid
    /\ LET nxt == update(Top, Top.moves[Top.i], -ret.score) IN
       /\ frames' = SetTop([ nxt EXCEPT !.i = Top.i + 1, !.waiting = FALSE,
                                        !.broke = cutoff(nxt) ])
       /\ calls' = [ calls EXCEPT
                       !.pop = calls.pop + (IF cutoff(nxt) THEN 0 ELSE 1),
                       !.skipped = calls.skipped
                           + (IF cutoff(nxt) THEN Len(Top.moves) - Top.i ELSE 0) ]
       /\ board' = IF cutoff(nxt) THEN board ELSE pop(board)
    /\ ret' = NoRet
    /\ UNCHANGED << board0, max_depth, use_book, book, pc, call, result,
                    human_is_white, out >>

\* The call came back: negate its score, pop the move, update best_score,
\* best_move and alpha, and test for the cutoff.
PopMove ==
    /\ pc = "negamax" /\ ~call.pending /\ frames # << >>
    /\ Top.waiting /\ ret.valid
    /\ LET nxt == update(Top, Top.moves[Top.i], -ret.score) IN
       /\ frames' = SetTop([ nxt EXCEPT !.i = Top.i + 1, !.waiting = FALSE,
                                        !.broke = cutoff(nxt) ])
       /\ calls' = [ calls EXCEPT
                       !.pop = calls.pop + 1,
                       !.skipped = calls.skipped
                           + (IF cutoff(nxt) THEN Len(Top.moves) - Top.i ELSE 0) ]
    /\ board' = pop(board)
    /\ ret' = NoRet
    /\ UNCHANGED << board0, max_depth, use_book, book, pc, call, result,
                    human_is_white, out >>

\* The loop is over, by the cutoff or for want of moves: return best_score
\* and best_move.
Return ==
    /\ pc = "negamax" /\ ~call.pending /\ frames # << >>
    /\ ~Top.waiting /\ (Top.broke \/ Top.i > Len(Top.moves))
    /\ ret' = Ret(Top.best_score, Top.best_move, FALSE, Top.broke,
                  Top.depth, Top.alpha_in, Top.beta)
    /\ frames' = SubSeq(frames, 1, Len(frames) - 1)
    /\ UNCHANGED << board, board0, max_depth, use_book, book, pc, call, result, calls,
                    human_is_white, out >>

\* The root call has returned: search_best_move returns its move, or the
\* null move when there is none.
Finish ==
    /\ pc = "negamax" /\ ~call.pending /\ frames = << >> /\ ret.valid
    /\ result' = or_null(ret.move)
    /\ pc' = "done"
    /\ UNCHANGED << board, board0, max_depth, use_book, book, frames, call, ret, calls,
                    human_is_white, out >>

Next == BookHit \/ BookMiss \/ NoBook \/ Enter \/ PushMove \/ PopMove \/ Return \/ Finish

Spec == Init /\ [][Next]_vars

(***************************************************************************)
(* Properties of the search                                                *)
(***************************************************************************)
\* The value of a node by full-width negamax: every legal move of every
\* node is examined, in no particular order and with no window; the leaves
\* (depth 0 or game over) carry evaluate, as in the program.
RECURSIVE exhaustive(_, _)
exhaustive(b, depth) ==
    LET moves == legal_moves(b) IN
    IF is_leaf(b, depth, moves) THEN evaluate_given(b, moves)
    ELSE SetMax({ -exhaustive(push(b, moves[i]), depth - 1) : i \in 1..Len(moves) })

\* The moves list(b.legal_moves) holds.
LegalSet(b) == Range(legal_moves(b))
Searched == pc = "done" /\ ~use_book

\* C1: with use_book off and max_depth >= 1 the root score of the pruned,
\* captures-first search equals the root value of exhaustive full-width
\* negamax over the same tree, and the returned move is a root move whose
\* subtree attains that value.
C1_AlphaBetaEqualsExhaustive ==
    (Searched /\ max_depth >= 1) =>
        /\ ret.score = exhaustive(board0, max_depth)
        /\ ~is_game_over(board0) =>
             /\ result \in LegalSet(board0)
             /\ -exhaustive(push(board0, result), max_depth - 1) = ret.score

\* A finished search of the pawn ending in which a node was left by the
\* cutoff with moves still unexamined.
C1_Witness ==
    /\ Searched /\ max_depth >= 2 /\ board0 = PawnEndingBoard
    /\ calls.skipped > 0
    /\ result \in LegalSet(board0)

\* evaluate as seen by the side to move.
mover_score(b) == IF b.turn = WHITE THEN evaluate(b) ELSE -evaluate(b)

\* The White-perspective evaluations of the positions after each legal move.
ChildEvals(b) == { evaluate(push(b, m)) : m \in LegalSet(b) }

\* C2: the score negamax returns is relative to the side to move: a leaf
\* returns evaluate when White is to move and -evaluate when Black is, so
\* that a depth-1 search picks, for either colour, the move whose resulting
\* position evaluates best for the mover (highest for White, lowest for
\* Black).
C2_ScoreRelativeToMover ==
    /\ (ret.valid /\ ret.leaf) => ret.score = mover_score(board)
    /\ (Searched /\ max_depth = 1 /\ ~is_game_over(board0)) =>
          /\ result \in LegalSet(board0)
          /\ \A e \in ChildEvals(board0) :
                IF board0.turn = WHITE THEN evaluate(push(board0, result)) >= e
                ELSE evaluate(push(board0, result)) <= e

\* The side to move has a legal move that checkmates.
HasMateInOne(b) ==
    ~is_game_over(b) /\ \E m \in LegalSet(b) : is_checkmate(push(b, m))

\* C3: when the side to move can mate in one, a search of depth >= 1 gives
\* the root the mate score in the mover's favour, and at depth 1 the move
\* it returns delivers mate.
C3_MateInOneFound ==
    (Searched /\ max_depth >= 1 /\ HasMateInOne(board0)) =>
        /\ ret.score = MATE
        /\ max_depth = 1 => is_checkmate(push(board0, result))

\* C4: from a position that is not game over, a search of depth >= 1
\* without the book returns a legal move of that position, never the null
\* move or None; in every call the first move examined replaces the initial
\* best_score.
C4_ReturnsLegalMove ==
    /\ (Searched /\ max_depth >= 1 /\ ~is_game_over(board0)) =>
          /\ result \in LegalSet(board0)
          /\ result \notin { NullMove, None }
    /\ \A k \in 1..Len(frames) :
          frames[k].i > 1 =>
              /\ frames[k].best_score > -INF
              /\ frames[k].best_move \in Range(frames[k].moves)

\* A finished depth-1 search of the starting position (the program's own
\* test) that returned one of its twenty moves.
C4_Witness ==
    /\ Searched /\ max_depth = 1 /\ board0 = StartBoard
    /\ Len(legal_moves(board0)) = 20
    /\ result \in LegalSet(board0)

\* The moves of the calls that are waiting for a child, the root's first.
RECURSIVE PendingMoves(_)
PendingMoves(frs) ==
    IF frs = << >> THEN << >>
    ELSE (IF Head(frs).waiting THEN << Head(frs).moves[Head(frs).i] >> ELSE << >>)
         \o PendingMoves(Tail(frs))

\* C5: the search changes the board only by push and pop in LIFO pairs:
\* the move stack is the initial one followed by exactly the moves of the
\* calls waiting for a child, every call but the innermost is waiting, the
\* stack height at a node of remaining depth d is the initial height plus
\* max_depth - d, and when search_best_move returns the board is the board
\* it was given.
C5_PushPopDiscipline ==
    /\ board.move_stack = board0.move_stack \o PendingMoves(frames)
    /\ calls.push - calls.pop = Len(PendingMoves(frames))
    /\ \A k \in 1..Len(frames) :
          /\ frames[k].depth = max_depth - (k - 1)
          /\ k < Len(frames) => frames[k].waiting
    /\ call.pending =>
          Len(board.move_stack) = Len(board0.move_stack) + (max_depth - call.depth)
    /\ (frames # << >> /\ ~Top.waiting) =>
          Len(board.move_stack) = Len(board0.move_stack) + (max_depth - Top.depth)
    /\ ret.valid =>
          Len(board.move_stack) = Len(board0.move_stack) + (max_depth - ret.depth)
    /\ pc = "done" => (board = board0 /\ calls.push = calls.pop)

\* A search from a board that already has moves on its stack (after 1.f3
\* e5 2.g4) has returned, after a cutoff elsewhere or not, with pushes made.
C5_Witness ==
    /\ pc = "done" /\ calls.push > 0 /\ calls.push = calls.pop
    /\ board0 = FoolsMateBoard /\ board = board0

\* C6: with max_depth = 0 and the book off the search is the static
\* evaluation of the root, for either side to move: the score is
\* evaluate(position), there is no move (negamax gives None, which
\* search_best_move hands on as the null move), and nothing is pushed or
\* popped.
C6_DepthZeroIsEvaluate ==
    (max_depth = 0 /\ ~use_book) =>
        /\ calls.push = 0 /\ calls.pop = 0 /\ board = board0
        /\ pc = "done" =>
             /\ ret.score = evaluate(board0)
             /\ ret.move = None
             /\ result = NullMove
             /\ calls.negamax = 1 /\ calls.evaluate = 1

\* A depth-0 search with Black to move has returned a non-zero evaluation.
C6_Witness ==
    /\ pc = "done" /\ max_depth = 0 /\ ~use_book
    /\ board0.turn = BLACK /\ ret.score # 0 /\ ret.score = evaluate(board0)

\* C7: the starting position without White's h-pawn evaluates strictly
\* below the starting position: -100 of material, -50 for the pawn's
\* piece-square entry, +8 for four more legal moves, the king tables equal.
C7_MissingPawnLowersEvaluate ==
    (pc = "done" /\ max_depth = 0 /\ ~use_book /\ board0 = MissingPawnBoard) =>
        /\ ret.score < evaluate(StartBoard)
        /\ ret.score = evaluate(StartBoard) - 100 - 50 + 2 * (24 - 20)

\* The depth-0 search of the position without the h-pawn has returned.
C7_Witness ==
    /\ pc = "done" /\ max_depth = 0 /\ ~use_book /\ board0 = MissingPawnBoard
    /\ ret.score < 0 /\ evaluate(StartBoard) > 0

\* C9: with use_book on, an entry found by the probe is returned at once
\* with no call of negamax or evaluate and no push or pop; a probe that
\* raises or finds nothing is swallowed and the result is that of the same
\* call with the book off.
C9_BookBypassOrFallThrough ==
    /\ (pc = "done" /\ use_book /\ book.kind = "entry") =>
          /\ result = book.move
          /\ calls = NoCalls
          /\ board = board0
    /\ (pc = "done" /\ use_book /\ book.kind # "entry") =>
          result = search_best_move(board0, max_depth, FALSE, book)
    /\ (use_book /\ pc # "start" /\ book.kind # "entry") => pc \in { "negamax", "done" }

\* A probe raised, the search ran and returned a legal move.
C9_Witness ==
    /\ pc = "done" /\ use_book /\ book = BookError /\ max_depth >= 1
    /\ calls.push > 0 /\ result \in LegalSet(board0)

\* C10 as stated: a call that leaves its loop by the cutoff returns the
\* score it would return had all its legal moves been examined.
C10_CutoffKeepsScore ==
    (ret.valid /\ ret.broke) => ret.score = exhaustive(board, ret.depth)

\* C10 amended: a call that leaves its loop by the cutoff returns a score
\* that is at least beta and at most the score of the node with all its
\* legal moves examined; a call whose score lies strictly inside its window
\* returns exactly that score.
C10_CutoffIsLowerBound ==
    /\ (ret.valid /\ ret.broke) =>
          /\ ret.score >= ret.beta
          /\ ret.score <= exhaustive(board, ret.depth)
    /\ (ret.valid /\ ~ret.leaf /\ ret.alpha_in < ret.score /\ ret.score < ret.beta) =>
          ret.score = exhaustive(board, ret.depth)

\* A call has returned by the cutoff with moves left unexamined.
C10_Witness ==
    /\ ret.valid /\ ret.broke /\ calls.skipped > 0
    /\ ret.score >= ret.beta /\ ret.alpha_in < ret.beta

(***************************************************************************)
(* The game loop: main, parse_move                                         *)
(***************************************************************************)
\* What board.parse_san reads in a text: nothing (the text is no SAN), the
\* null move (--, 0000), a castling (O-O, O-O-O) or a move: the piece
\* letter (0 when there is none), the file and the rank of the origin (-1
\* when not given), the target square and the promotion piece (0 when
\* there is none).
NoSan ==
    [ kind |-> "none", piece_type |-> 0, from_file |-> -1, from_rank |-> -1,
      to_square |-> NoSquare, promotion |-> 0 ]
SanNull == [ NoSan EXCEPT !.kind = "null" ]
SanCastling(kind) == [ NoSan EXCEPT !.kind = kind ]
San(piece_type, from_file, from_rank, to_square, promotion) ==
    [ kind |-> "move", piece_type |-> piece_type, from_file |-> from_file,
      from_rank |-> from_rank, to_square |-> to_square, promotion |-> promotion ]

\* What the user typed, by what the two parsers make of it: the move
\* chess.Move.from_uci reads (None when it raises) and what board.parse_san
\* reads.
Typed(uci, san) == [ kind |-> "move", uci |-> uci, san |-> san ]
Command(kind) == [ kind |-> kind, uci |-> None, san |-> NoSan ]

\* board.find_move(from_square, to_square, promotion): a pawn reaching a
\* back rank promotes to a queen by default, the king "taking" its own rook
\* castles; None (the library raises) when the move is not legal.
find_move(b, from_square, to_square, promotion) ==
    LET promoted == IF /\ promotion = 0
                       /\ piece_type_of(b.pieces[from_square]) = PAWN
                       /\ square_rank(to_square) \in {0, 7}
                    THEN QUEEN ELSE promotion
        move == from_chess960(b, from_square, to_square, promoted)
    IN IF is_legal(b, move) THEN move ELSE None

\* `if move.promotion == promotion: return move`, else the library raises.
with_promotion(move, promotion) ==
    IF move # None /\ move.promotion = promotion THEN move ELSE None

\* board.parse_san: the castling move of that wing; the fully specified
\* move without a piece letter, found by find_move and kept if its
\* promotion is the one written; or the one legal move of that piece type,
\* from that file and rank if given, to that square with that promotion.
\* Castling is never matched by its target square, and a pawn move written
\* without its file stays on the file of its target (it is no capture).
\* None where the library raises: no such move, or more than one.
parse_san(b, san) ==
    IF san.kind = "none" THEN None
    ELSE IF san.kind = "null" THEN NullMove
    ELSE IF san.kind \in { "O-O", "O-O-O" }
    THEN LET Wing(m) == (square_file(m.to_square) > square_file(m.from_square))
                            = (san.kind = "O-O")
             found == SelectSeq(generate_castling_moves(b), Wing)
         IN IF found = << >> THEN None ELSE found[1]
    ELSE IF san.piece_type = 0 /\ san.from_file # -1 /\ san.from_rank # -1
    THEN with_promotion(find_move(b, square(san.from_file, san.from_rank),
                                  san.to_square, san.promotion),
                        san.promotion)
    ELSE LET fits == { m \in LegalSet(b) :
                         /\ ~is_castling(b, m)
                         /\ m.to_square = san.to_square
                         /\ m.promotion = san.promotion
                         /\ san.from_file # -1 => square_file(m.from_square) = san.from_file
                         /\ san.from_rank # -1 => square_rank(m.from_square) = san.from_rank
                         /\ piece_type_of(b.pieces[m.from_square])
                               = (IF san.piece_type = 0 THEN PAWN ELSE san.piece_type)
                         /\ (san.piece_type = 0 /\ san.from_file = -1) =>
                               square_file(m.from_square) = square_file(san.to_square) }
         IN IF Cardinality(fits) = 1 THEN CHOOSE m \in fits : TRUE ELSE None

\* `if move in board.legal_moves: return move`, where a parser that raised
\* left no move.
if_legal(b, move) ==
    IF move # None /\ is_legal(b, move) THEN move ELSE None

\* parse_move(user_input, board): the move read as UCI if it is legal, else
\* the move read as SAN if it is legal, else None.
parse_move(input, b) ==
    IF input.kind = "empty" THEN None
    ELSE IF if_legal(b, input.uci) # None THEN input.uci
    ELSE if_legal(b, parse_san(b, input.san))

\* The texts tried at the prompt: f2f3, e7e5, the illegal e2e5, the null
\* move 0000, g4, Nf6, Qh4, e5 (illegal for White at the start), fxe5 (no
\* such capture), g2-g4, O-O (never available this early) and xyz.
MoveInputs ==
    { Typed(Move(square(5, 1), square(5, 2), 0), San(0, 5, 1, square(5, 2), 0)),
      Typed(Move(square(4, 6), square(4, 4), 0), San(0, 4, 6, square(4, 4), 0)),
      Typed(Move(square(4, 1), square(4, 4), 0), San(0, 4, 1, square(4, 4), 0)),
      Typed(NullMove, SanNull),
      Typed(None, San(0, -1, -1, square(6, 3), 0)),
      Typed(None, San(KNIGHT, -1, -1, square(5, 5), 0)),
      Typed(None, San(QUEEN, -1, -1, square(7, 3), 0)),
      Typed(None, San(0, -1, -1, square(4, 4), 0)),
      Typed(None, San(0, 5, -1, square(4, 4), 0)),
      Typed(None, San(0, 6, 1, square(6, 3), 0)),
      Typed(None, SanCastling("O-O")),
      Typed(None, NoSan),
      Command("empty") }

\* The longest game explored, in plies.
MaxPlies == 4

HumanToMove ==
    (board.turn = WHITE /\ human_is_white) \/ (board.turn = BLACK /\ ~human_is_white)

Playing == pc = "turn" /\ ~is_game_over(board)

\* main starts from chess.Board(); the prompt fixes the side and a depth
\* clamped to 1..5, of which the games explored here use 1.
GameInit ==
    /\ board = StartBoard
    /\ board0 = StartBoard
    /\ human_is_white \in BOOLEAN
    /\ max_depth = 1
    /\ use_book = TRUE
    /\ book = BookNone
    /\ pc = "turn"
    /\ frames = << >>
    /\ call = NoCall
    /\ ret = NoRet
    /\ result = None
    /\ calls = NoCalls
    /\ out = "none"

Idle == UNCHANGED << board0, max_depth, use_book, frames, call, ret, calls, human_is_white >>

\* quit, q or exit at the prompt.
HumanQuit ==
    /\ Playing /\ HumanToMove
    /\ pc' = "quit"
    /\ out' = "Goodbye!"
    /\ UNCHANGED << board, book, result >>
    /\ Idle

\* help, moves or fen at the prompt: text is printed and the prompt returns.
HumanAsk ==
    /\ Playing /\ HumanToMove
    /\ out' \in { "help", "moves", "fen" }
    /\ UNCHANGED << board, book, result, pc >>
    /\ Idle

\* undo at the prompt: one half-move is taken back if there is one.
HumanUndo ==
    /\ Playing /\ HumanToMove
    /\ IF board.move_stack # << >>
       THEN board' = pop(board) /\ out' = "undo"
       ELSE board' = board /\ out' = "Nothing to undo."
    /\ UNCHANGED << book, result, pc >>
    /\ Idle

\* Any other text: the move parse_move reads is pushed, or the text is
\* refused.
HumanMove ==
    /\ Playing /\ HumanToMove /\ Len(board.move_stack) < MaxPlies
    /\ \E input \in MoveInputs : \E move \in { parse_move(input, board) } :
         IF move = None
         THEN board' = board /\ out' = "Unrecognized or illegal move."
         ELSE board' = push(board, move) /\ out' = "Your move"
    /\ UNCHANGED << book, result, pc >>
    /\ Idle

\* The AI's turn begins: search_best_move(board, max_depth=depth) is
\* called, with the book on by default.
AIThink ==
    /\ Playing /\ ~HumanToMove /\ Len(board.move_stack) < MaxPlies
    /\ pc' = "start"
    /\ board0' = board
    /\ calls' = NoCalls
    /\ ret' = NoRet
    /\ result' = None
    /\ out' = "AI thinking"
    /\ UNCHANGED << board, max_depth, use_book, book, frames, call, human_is_white >>

\* A faulty test: `if move`, without the legality check.
playable_if_move(b, move) == move # NullMove

\* `if move and move in board.legal_moves`.
playable(b, move) == move # NullMove /\ is_legal(b, move)

\* search_best_move has returned: its move is pushed if it is a move and
\* legal, otherwise the first legal move is.
AIPlay ==
    /\ pc = "done"
    /\ IF playable(board, result)
       THEN board' = push(board, result) /\ out' = "AI plays"
       ELSE board' = push(board, legal_moves(board)[1]) /\ out' = "AI fallback plays"
    /\ pc' = "turn"
    /\ UNCHANGED << book, result >>
    /\ Idle

\* The loop ends when the game is over.
GameOver ==
    /\ pc = "turn" /\ is_game_over(board)
    /\ pc' = "over"
    /\ out' = IF is_checkmate(board) THEN "Checkmate!"
              ELSE IF is_stalemate(board) THEN "Stalemate."
              ELSE IF is_insufficient_material(board) THEN "Draw by insufficient material."
              ELSE IF can_claim_threefold_repetition(board)
                   THEN "Draw by threefold repetition (claimable)."
              ELSE "Game over."
    /\ UNCHANGED << board, book, result >>
    /\ Idle

GameNext ==
    \/ HumanQuit \/ HumanAsk \/ HumanUndo \/ HumanMove \/ GameOver
    \/ AIThink \/ BookHit \/ BookMiss \/ Enter \/ PushMove \/ PopMove \/ Return \/ Finish
    \/ AIPlay

SpecGame == GameInit /\ [][GameNext]_vars

\* C8: every AI turn pushes exactly one move, a legal move of the position
\* it was made in: the move search_best_move returned when that is a move
\* and legal, otherwise the first legal move, reported as a fallback; and
\* every move pushed, by the AI, by its search or read from the human, is a
\* legal non-null move of the position it is pushed on.
C8_OnlyLegalMovesPushed ==
    [][ /\ Len(board'.move_stack) > Len(board.move_stack) =>
              \E m \in LegalSet(board) : m # NullMove /\ board' = push(board, m)
        /\ (pc = "done" /\ pc' # "done") =>
              /\ board = board0
              /\ Len(board'.move_stack) = Len(board.move_stack) + 1
              /\ out' \in { "AI plays", "AI fallback plays" }
              /\ out' = "AI fallback plays" <=>
                    (result = NullMove \/ ~is_legal(board, result))
              /\ out' = "AI fallback plays" => board' = push(board, legal_moves(board)[1])
              /\ out' = "AI plays" => board' = push(board, result)
        /\ (pc = "turn" /\ pc' = "start") => (board' = board /\ ~is_game_over(board))
      ]_vars

\* The book handed the AI a move that is not legal and the first legal move
\* was played instead.
C8_Witness ==
    /\ out = "AI fallback plays" /\ book.kind = "entry"
    /\ result \notin { NullMove, None }
    /\ board.move_stack # << >>
    /\ board.move_stack[Len(board.move_stack)] # result

====
